---------------------------- MODULE Spec2Model ----------------------------
(***************************************************************************)
(* Model of the fitbit importer's incremental-update pipeline:             *)
(*   DataAnalyzer  (src/fitbit_importer/data_analyzer.py)                   *)
(*   DataMerger    (src/fitbit_importer/data_merger.py)                     *)
(*   SmartUpdater  (src/fitbit_importer/smart_updater.py)                   *)
(* Calendar days are integers (day numbers); a date difference ".days" is  *)
(* integer subtraction and "+ timedelta(days=1)" is + 1.                    *)
(***************************************************************************)
EXTENDS Integers, Sequences, FiniteSets, TLC

\* ------------------------------------------------------------------ bounds
\* Days a file of the analysed folder may be named after: 1..MaxDay.
MaxDay == 7
\* Number of CSV files in the analysed folder.
MaxFiles == 4
\* Days the API folder may hold files for in a merge scenario: 1..MaxApiDay.
MaxApiDay == 2
\* Number of files the exporter writes into the API folder in a merge scenario.
MaxFetches == 3
\* Days the store of an update scenario may hold files for: 1..MaxStoreDay.
MaxStoreDay == 5
\* Number of files in the store of a planning scenario.
MaxPlanFiles == 4
\* Number of files in the store of an update-run scenario.
MaxRunFiles == 4
\* [auto_update] max_gap_days of the configuration file (fallback 30).
max_gap_days == 2
\* [auto_update] update_recent_days of the configuration file: the fallback.
update_recent_days == 7

\* ------------------------------------------------------------ basic values
\* Python's None.
None == <<>>

\* The data types DataAnalyzer.analyze_all_data walks, in its order.
data_types ==
    <<"calories", "steps", "distance", "spo2", "temperature", "hrv",
      "heart_rate", "sleep", "activity_summary">>

DataTypes == {data_types[i] : i \in 1..Len(data_types)}

Days == 1..MaxDay

\* The data types find_api_data collects (the files the exporter writes).
ApiTypes == {"activity_summary", "heart_rate", "sleep", "steps"}

\* A file stem whose part before the first "_" is not a %Y-%m-%d date (a
\* value that is no day: a cold-start range reaches back to today - 7).
NoDate == 0 - 100

\* Suffixes the archive processor appends to a day file's stem ("" = none).
Suffixes == {"", "wrist", "device"}

\* The CSV file names a data type's folder may hold: <date>[_<sfx>].csv, or a
\* name that does not start with a date.
FileNames ==
    {[date |-> d, sfx |-> s] : d \in Days, s \in Suffixes}
        \cup {[date |-> NoDate, sfx |-> ""]}

\* Subsets of S with at most k elements.
RECURSIVE KSubsets(_, _)
KSubsets(S, k) ==
    IF k = 0 THEN {{}}
    ELSE LET prev == KSubsets(S, k - 1)
         IN  prev \cup {s \cup {x} : s \in prev, x \in S}

\* What merge_results holds while merge_all_data has not been called (a merge
\* pass that finds no API data returns an empty dict instead).
NotMerged == [called |-> FALSE]

VARIABLES
    store,      \* store[t]: the CSV files of data_folder/t, each [date, sfx, data]
                \*   data = 0: written by the archive processor,
                \*   data = n > 0: copy of the table the n-th fetch wrote
    dirs,       \* the data types whose folder data_folder/t exists
    api,        \* api[t]: the files api_folder/YYYY/MM/DD/t.csv, each [date, data]
    report,     \* the last coverage report returned by analyze_data_type
    merge_results,  \* what the last merge_all_data returned
    today,      \* datetime.now().date() as calculate_download_strategy read it
    strategy,   \* the strategy calculate_download_strategy returned
    pc,         \* where run_update stands, or how it returned
    flags,      \* the arguments of run_update: dry_run, recent_only, fill_gaps
    proceed,    \* the answers click.confirm returned (<<>>: it was not called)
    results,    \* results of execute_download_strategy
    gap_index,  \* position of the gap loop in strategy.priority_gaps
    export_range,   \* [export] start_date, end_date of the configuration file
    downloads,  \* the calls of download_date_range made so far, in order
    fetch,      \* one fetch plan (a download_date_range / export_data loop):
                \*   its client, range, position, counters and return value
    token,      \* the stored access token as load_tokens finds it
    last_call,  \* the HTTP statuses the last download method received, one
                \*   sequence per API call (<<429, 200>>: throttled, retried)
    raw_unit,   \* the archive file extract_and_process_zip hands over
    tables,     \* tables[<<t, d>>]: the rows of the day file t/d.csv, where
                \*   the archive processor wrote it
    written,    \* the day files <<t, d>> the last process_*_json call wrote
    stats,      \* stats of extract_and_process_zip
    errors,     \* number of "Error processing ..." messages echoed
    sleep_files,    \* sleep_files[d]: minutesAsleep of the rows of sleep/d.csv
    sleep_data_with_types   \* the table detect_naps returned to the sleep tab

vars == <<store, dirs, api, report, merge_results, today, strategy,
          pc, flags, proceed, results, gap_index, export_range, downloads,
          fetch, token, last_call, raw_unit, tables, written, stats, errors,
          sleep_files, sleep_data_with_types>>

\* The state of one run_update call.
runVars == <<pc, flags, proceed, results, gap_index, export_range,
            downloads>>

\* run_update has not been called.
NoRun ==
    /\ pc = "idle"
    /\ flags = None
    /\ proceed = <<>>
    /\ results = None
    /\ gap_index = 0
    /\ export_range = None
    /\ downloads = <<>>

\* The state of the update planner.
planVars == <<today, strategy>>

\* No plan has been computed.
NoPlan == today = NoDate /\ strategy = None

\* The state of one fetch plan.
fetchVars == <<fetch, token, last_call>>

\* No fetch plan has been started.
NoFetch ==
    /\ fetch = None
    /\ token = "valid"
    /\ last_call = <<>>

\* The state of the archive processor.
takeoutVars == <<raw_unit, tables, written, stats, errors>>

\* No archive file is being processed.
NoTakeout ==
    /\ raw_unit = None
    /\ tables = <<>>
    /\ written = {}
    /\ stats = None
    /\ errors = 0

\* The state of the dashboard's sleep tab.
sleepVars == <<sleep_files, sleep_data_with_types>>

\* The sleep tab has not been rendered and no sleep file is considered.
NoSleep ==
    /\ sleep_files = <<>>
    /\ sleep_data_with_types = <<>>

\* ------------------------------------------------------- Coverage Analyzer
\* datetime.strptime(filename.split('_')[0], '%Y-%m-%d') succeeds.
ParsesAsDate(f) == f.date # NoDate

SetMin(S) == CHOOSE x \in S : \A y \in S : x <= y

SetMax(S) == CHOOSE x \in S : \A y \in S : y <= x

SeqRange(s) == {s[i] : i \in 1..Len(s)}

\* n copies of x.
Repeat(x, n) == [i \in 1..n |-> x]

\* sorted(dates): one entry per file whose name parses, ascending.
RECURSIVE SortedDatesOf(_)
SortedDatesOf(files) ==
    IF files = {} THEN <<>>
    ELSE LET d    == SetMin({f.date : f \in files})
             same == {f \in files : f.date = d}
         IN  Repeat(d, Cardinality(same)) \o SortedDatesOf(files \ same)

\* Mutant: the gap is emitted for any two different days.
HasGapFromOneDay(current_date, next_date) == next_date - current_date >= 1

\* "if diff > 1": the two consecutive covered days are more than a day apart.
HasGap(current_date, next_date) == next_date - current_date > 1

\* Mutant: the length counts the next covered day as missing.
GapBetweenLenOffByOne(current_date, next_date) ==
    <<current_date + 1, next_date - 1, next_date - current_date>>

\* Mutant: the gap ends on the next covered day.
GapBetweenEndInclusive(current_date, next_date) ==
    <<current_date + 1, next_date, next_date - current_date - 1>>

\* (gap_start, gap_end, diff - 1).
GapBetween(current_date, next_date) ==
    <<current_date + 1, next_date - 1, (next_date - current_date) - 1>>

\* The loop over consecutive pairs dates[i], dates[i+1], from index i on.
RECURSIVE GapsFrom(_, _)
GapsFrom(dates, i) ==
    IF i >= Len(dates) THEN <<>>
    ELSE LET current_date == dates[i]
             next_date    == dates[i + 1]
         IN  (IF HasGap(current_date, next_date)
              THEN <<GapBetween(current_date, next_date)>>
              ELSE <<>>) \o GapsFrom(dates, i + 1)

EmptyReport(exists) ==
    [exists |-> exists, days |-> 0, date_range |-> None,
     dates |-> <<>>, gaps |-> <<>>]

\* The report of a folder with at least one dated file.
CoverageOf(dates) ==
    [exists     |-> TRUE,
     days       |-> Len(dates),
     date_range |-> <<dates[1], dates[Len(dates)]>>,
     dates      |-> dates,
     gaps       |-> GapsFrom(dates, 1)]

\* Mutant: a file name that is no date is not skipped (it counts as a day).
AnalyzeFilesNoSkip(exists, files) ==
    IF ~exists THEN EmptyReport(FALSE)
    ELSE IF files = {} THEN EmptyReport(TRUE)
    ELSE CoverageOf(SortedDatesOf(files))

\* DataAnalyzer.analyze_data_type on folder contents `files` (exists: the
\* folder is there).
AnalyzeFiles(exists, files) ==
    IF ~exists THEN EmptyReport(FALSE)
    ELSE IF files = {} THEN EmptyReport(TRUE)
    ELSE LET dates == SortedDatesOf({f \in files : ParsesAsDate(f)})
         IN  IF dates = <<>> THEN EmptyReport(TRUE)
             ELSE CoverageOf(dates)

analyze_data_type(data_type) ==
    AnalyzeFiles(data_type \in dirs, store[data_type])

\* The `analyze` command on one data type: the report is computed from the
\* store, which is only read.
AnalyzeDataType(t) ==
    /\ report' = [type |-> t] @@ analyze_data_type(t)
    /\ UNCHANGED <<store, dirs, api, merge_results, planVars, runVars>>
    /\ UNCHANGED <<fetchVars, takeoutVars, sleepVars>>

\* The folder whose coverage is analysed.
AnalyzedType == "temperature"

NoFiles == [t \in DataTypes |-> {}]

ArchiveFile(n) == [date |-> n.date, sfx |-> n.sfx, data |-> 0]

\* A store holding the archive files `names` (pairs <<type, day>>).
ArchiveStore(names) ==
    [t \in DataTypes |->
        {[date |-> n[2], sfx |-> "", data |-> 0] :
            n \in {m \in names : m[1] = t}}]

InitAnalyze ==
    /\ \E names \in KSubsets(FileNames, MaxFiles), present \in BOOLEAN :
          /\ present \/ names = {}
          /\ store = [NoFiles EXCEPT ![AnalyzedType] =
                         {ArchiveFile(n) : n \in names}]
          /\ dirs = IF present THEN {AnalyzedType} ELSE {}
    /\ api = [t \in ApiTypes |-> {}]
    /\ report = None
    /\ merge_results = NotMerged
    /\ NoPlan
    /\ NoRun
    /\ NoFetch
    /\ NoSleep
    /\ NoTakeout

NextAnalyze == \E t \in {AnalyzedType, "heart_rate"} : AnalyzeDataType(t)

SpecAnalyze == InitAnalyze /\ [][NextAnalyze]_vars

\* ------------------------------------------------- coverage claims (C1-C3)
\* The covered days of data type t as the specification defines them: the set
\* of days some CSV file of the folder is named after.
CoveredDays(t) ==
    IF t \in dirs THEN {f.date : f \in {g \in store[t] : g.date # NoDate}}
    ELSE {}

\* a and b are consecutive covered days of S.
ConsecutivePair(S, a, b) ==
    /\ a \in S /\ b \in S /\ a < b
    /\ ~ \E c \in S : a < c /\ c < b

\* The gaps the specification asks for: one per consecutive pair of covered
\* days that are more than one day apart.
ExpectedGaps(S) ==
    {<<a + 1, b - 1, b - a - 1>> : <<a, b>> \in
        {p \in S \X S : ConsecutivePair(S, p[1], p[2]) /\ p[2] - p[1] > 1}}

Reported == report # None

\* C1: for every set of covered days, analyze_data_type reports exactly one
\* gap (first_missing, last_missing, length) per pair of consecutive covered
\* days more than one day apart, spanning the days strictly between them with
\* length = next_day - current_day - 1, and no other gap; the date range is
\* (first covered day, last covered day).
C1_GapsPerConsecutivePair ==
    Reported =>
        LET S == CoveredDays(report.type)
        IN  /\ SeqRange(report.gaps) = ExpectedGaps(S)
            /\ Len(report.gaps) = Cardinality(ExpectedGaps(S))
            /\ S # {} => report.date_range = <<SetMin(S), SetMax(S)>>

\* The specification's example: covered {D1, D3, D4, D7}.
C1_Witness ==
    /\ Reported
    /\ CoveredDays(report.type) = {1, 3, 4, 7}
    /\ report.date_range = <<1, 7>>
    /\ report.gaps = << <<2, 2, 1>>, <<5, 6, 2>> >>

DaysOfGap(g) == g[1]..g[2]

\* C2: the gaps partition the missing days of the span: every day from the
\* first to the last covered day is either covered or in exactly one gap,
\* never both; no gap reaches outside the span; gaps are pairwise disjoint,
\* non-adjacent and in ascending date order.
C2_GapsPartitionMissingDays ==
    Reported =>
        LET S    == CoveredDays(report.type)
            gaps == report.gaps
            n    == Len(gaps)
        IN  /\ S = {} => n = 0
            /\ S # {} =>
                /\ \A d \in SetMin(S)..SetMax(S) :
                      Cardinality({i \in 1..n : d \in DaysOfGap(gaps[i])})
                          = IF d \in S THEN 0 ELSE 1
                /\ \A i \in 1..n :
                      /\ gaps[i][1] <= gaps[i][2]
                      /\ SetMin(S) < gaps[i][1]
                      /\ gaps[i][2] < SetMax(S)
                      /\ gaps[i][3] = Cardinality(DaysOfGap(gaps[i]))
                /\ \A i \in 1..n, j \in 1..n :
                      i < j => gaps[i][2] + 1 < gaps[j][1]

\* A report with two gaps and a covered run between them.
C2_Witness ==
    /\ Reported
    /\ Len(report.gaps) = 2
    /\ \E d \in CoveredDays(report.type) :
          /\ report.gaps[1][2] < d
          /\ d + 1 \in CoveredDays(report.type)
          /\ d + 1 < report.gaps[2][1]

\* C3: with no covered day (folder missing, no CSV file, or no file name that
\* parses as a date) the report has days = 0, no date_range and no gaps; with
\* exactly one covered day it has date_range (day, day) and no gaps.
C3_CoverageEdgeCases ==
    Reported =>
        LET S == CoveredDays(report.type)
        IN  /\ S = {} =>
                /\ report.days = 0
                /\ report.date_range = None
                /\ report.gaps = <<>>
            /\ Cardinality(S) = 1 =>
                /\ report.date_range = <<SetMin(S), SetMin(S)>>
                /\ report.gaps = <<>>

\* A folder holding one day file and one file whose name is not a date.
C3_Witness ==
    /\ Reported
    /\ Cardinality(CoveredDays(report.type)) = 1
    /\ \E f \in store[report.type] : f.date = NoDate
    /\ report.date_range # None

\* The three empty cases of C3 are reachable as well.
C3_WitnessNoFolder == Reported /\ ~report.exists /\ report.days = 0
C3_WitnessNoCsv ==
    Reported /\ report.exists /\ store[report.type] = {} /\ report.days = 0
C3_WitnessNoDateName ==
    Reported /\ store[report.type] # {} /\ report.days = 0

\* ------------------------------------------------------------ Merge Resolver
\* find_api_data: the dates data type t has a file for in the API folder.
ApiDates(t) == {a.date : a \in api[t]}

\* Mutant: only the tables the archive processor wrote count as stored.
TakeoutDatesArchiveOnly(t) ==
    IF t \in dirs
    THEN {f.date : f \in {g \in store[t] : ParsesAsDate(g) /\ g.data = 0}}
    ELSE {}

\* find_takeout_data: the dates the store's folder of t has a file for (any
\* suffix), read before the pass writes anything.
TakeoutDates(t) ==
    IF t \in dirs THEN {f.date : f \in {g \in store[t] : ParsesAsDate(g)}}
    ELSE {}

\* Mutant: fetched data wins for every data type.
DecisionFetchedWins(data_type, api_date, takeout_dates) == "take_fetched"

\* Mutant: activity_summary is treated like the other data types.
DecisionArchiveWins(data_type, api_date, takeout_dates) ==
    IF api_date \in takeout_dates THEN "keep_archive" ELSE "take_fetched"

\* The branch merge_data_type takes for one API day.
Decision(data_type, api_date, takeout_dates) ==
    IF data_type = "activity_summary" THEN "take_fetched"
    ELSE IF api_date \in takeout_dates THEN "keep_archive"
    ELSE "take_fetched"

\* The API files of t a pass copies into the store.
Taken(t) ==
    {a \in api[t] : Decision(t, a.date, TakeoutDates(t)) = "take_fetched"}

\* output_dir / f"{api_date}.csv" written (to_csv, shutil.copy2) for every
\* taken API file: the file of that name is replaced as a whole.
WriteDayFiles(files, taken) ==
    {f \in files : ~(f.sfx = "" /\ f.date \in {a.date : a \in taken})}
        \cup {[date |-> a.date, sfx |-> "", data |-> a.data] : a \in taken}

\* Mutant: a skipped day is reported as updated.
MergeCountsUpdated(t) ==
    [added   |-> Cardinality(Taken(t)),
     updated |-> Cardinality(api[t] \ Taken(t)),
     skipped |-> 0]

\* The counters merge_data_type returns.
MergeCounts(t) ==
    [added   |-> Cardinality(Taken(t)),
     updated |-> 0,
     skipped |-> Cardinality(api[t] \ Taken(t))]

\* The data types merge_all_data calls merge_data_type for.
MergedTypes == {t \in ApiTypes : api[t] # {}}

\* DataMerger.merge_all_data: one merge pass over every data type that has
\* API data.
merge_all_data ==
    /\ store' = [t \in DataTypes |->
                    IF t \in MergedTypes
                    THEN WriteDayFiles(store[t], Taken(t)) ELSE store[t]]
    /\ dirs' = dirs \cup {t \in MergedTypes : Taken(t) # {}}
    /\ merge_results' = [t \in MergedTypes |-> MergeCounts(t)]

\* The `merge` command.
MergeAllData ==
    /\ merge_all_data
    /\ UNCHANGED <<api, report, planVars, runVars>>
    /\ UNCHANGED <<fetchVars, takeoutVars, sleepVars>>

\* The number the next fetch stamps its tables with.
NextFetchId ==
    LET ids == {a.data : a \in UNION {api[t] : t \in ApiTypes}}
    IN  IF ids = {} THEN 1 ELSE SetMax(ids) + 1

\* FitbitExporter._export_*: the table fetched for (t, d) is written to
\* api_folder/YYYY/MM/DD/t.csv, replacing the file of an earlier fetch.
ExportFile(t, d) ==
    /\ NextFetchId <= MaxFetches
    /\ api' = [api EXCEPT ![t] = {a \in @ : a.date # d}
                                    \cup {[date |-> d, data |-> NextFetchId]}]
    /\ UNCHANGED <<store, dirs, report, merge_results, planVars, runVars>>
    /\ UNCHANGED <<fetchVars, takeoutVars, sleepVars>>

\* The data types of a merge scenario: one the archive is authoritative for
\* and the one the fetch is authoritative for.
MergeScenarioTypes == {"heart_rate", "activity_summary"}

ApiDays == 1..MaxApiDay

InitMerge ==
    /\ \E names \in SUBSET (MergeScenarioTypes \X ApiDays) :
          /\ store = ArchiveStore(names)
          /\ dirs = {n[1] : n \in names}
    /\ api = [t \in ApiTypes |-> {}]
    /\ report = None
    /\ merge_results = NotMerged
    /\ NoPlan
    /\ NoRun
    /\ NoFetch
    /\ NoSleep
    /\ NoTakeout

NextMerge ==
    \/ MergeAllData
    \/ \E t \in MergeScenarioTypes, d \in ApiDays : ExportFile(t, d)

SpecMerge == InitMerge /\ [][NextMerge]_vars

\* ------------------------------------------------------------ Update Planner
\* [auto_update] priority_types of the configuration file: the fallback.
priority_types == <<"heart_rate", "sleep", "activity_summary">>

\* analyzer.analyze_all_data().
analyze_all_data == [t \in DataTypes |-> analyze_data_type(t)]

\* Mutant: only the priority data types are looked at.
LatestDatesPriorityOnly ==
    {analyze_all_data[t].date_range[2] :
        t \in {u \in SeqRange(priority_types) :
                  /\ analyze_all_data[u].exists
                  /\ analyze_all_data[u].date_range # None}}

\* latest_dates of find_latest_data_date.
LatestDates ==
    {analyze_all_data[t].date_range[2] :
        t \in {u \in DataTypes :
                  /\ analyze_all_data[u].exists
                  /\ analyze_all_data[u].date_range # None}}

\* Mutant: the recent range starts on the latest covered day.
RecentAfterStartsOnLatest(latest_date, now) ==
    IF now - latest_date > 0
    THEN <<latest_date, now, now - latest_date>>
    ELSE None

\* recent_data when some data exists: the days after latest_date up to today.
RecentAfter(latest_date, now) ==
    LET days_behind == now - latest_date
    IN  IF days_behind > 0
        THEN <<latest_date + 1, now, days_behind>>
        ELSE None

\* recent_data when no data exists at all.
RecentColdStart(now) ==
    <<now - update_recent_days, now, update_recent_days>>

\* Mutant: gaps exactly max_gap_days long are left out.
WithinMaxGapStrict(gap_days) == gap_days < max_gap_days

\* "if gap_days <= self.max_gap_days".
WithinMaxGap(gap_days) == gap_days <= max_gap_days

\* The gaps of one priority data type that find_priority_gaps appends.
RECURSIVE GapsOfType(_, _, _)
GapsOfType(data_type, gaps, i) ==
    IF i > Len(gaps) THEN <<>>
    ELSE (IF WithinMaxGap(gaps[i][3])
          THEN << <<gaps[i][1], gaps[i][2], data_type, gaps[i][3]>> >>
          ELSE <<>>) \o GapsOfType(data_type, gaps, i + 1)

\* The loop of find_priority_gaps over priority_types, from index i on.
RECURSIVE UnsortedPriorityGaps(_)
UnsortedPriorityGaps(i) ==
    IF i > Len(priority_types) THEN <<>>
    ELSE LET data_type == priority_types[i]
         IN  (IF data_type \in DataTypes /\ analyze_all_data[data_type].exists
              THEN GapsOfType(data_type, analyze_all_data[data_type].gaps, 1)
              ELSE <<>>) \o UnsortedPriorityGaps(i + 1)

\* The entries of gaps whose length is k, in their order.
RECURSIVE OfLength(_, _, _)
OfLength(gaps, k, i) ==
    IF i > Len(gaps) THEN <<>>
    ELSE (IF gaps[i][4] = k THEN <<gaps[i]>> ELSE <<>>)
            \o OfLength(gaps, k, i + 1)

\* Mutant: the list is left in the order it was collected.
SortByGapDaysNoSort(gaps) == gaps

\* priority_gaps.sort(key=lambda x: x[3]): stable, ascending by length (the
\* lengths on the list are 1..max_gap_days).
RECURSIVE SortFrom(_, _)
SortFrom(gaps, k) ==
    IF k > max_gap_days THEN <<>>
    ELSE OfLength(gaps, k, 1) \o SortFrom(gaps, k + 1)

SortByGapDays(gaps) == SortFrom(gaps, 1)

find_priority_gaps == SortByGapDays(UnsortedPriorityGaps(1))

\* Sum of the gap_days of a priority-gap list.
RECURSIVE SumGapDays(_, _)
SumGapDays(gaps, i) ==
    IF i > Len(gaps) THEN 0 ELSE gaps[i][4] + SumGapDays(gaps, i + 1)

\* The API requests estimated per day ("4 main data types").
RequestsPerDay == 4

\* SmartUpdater.calculate_download_strategy with today = now.
calculate_download_strategy(now) ==
    LET recent_data   == IF LatestDates # {}
                         THEN RecentAfter(SetMax(LatestDates), now)
                         ELSE RecentColdStart(now)
        recent_days   == IF recent_data = None THEN 0 ELSE recent_data[3]
        priority_gaps == find_priority_gaps
        total_days    == recent_days + SumGapDays(priority_gaps, 1)
    IN  [recent_data        |-> recent_data,
         priority_gaps      |-> priority_gaps,
         total_days         |-> total_days,
         estimated_requests |-> total_days * RequestsPerDay]

\* The first day on which a store whose latest day is MaxStoreDay is so far
\* behind that the estimate reaches the confirmation threshold.
FarDay == MaxStoreDay + 75

\* The days "today" is drawn from.
Todays == {MaxStoreDay - 1, MaxStoreDay, FarDay}

\* The planner alone (update --dry-run): the store is only read.
CalculateStrategy ==
    /\ strategy = None
    /\ \E now \in Todays :
          /\ today' = now
          /\ strategy' = calculate_download_strategy(now)
    /\ UNCHANGED <<store, dirs, api, report, merge_results, runVars>>
    /\ UNCHANGED <<fetchVars, takeoutVars, sleepVars>>

\* The data types an update scenario has archive data of: two priority types
\* and one that is not.
StoredTypes == {"heart_rate", "activity_summary", "steps"}

StoreDays == 1..MaxStoreDay

InitPlan ==
    /\ \E names \in KSubsets(StoredTypes \X StoreDays, MaxPlanFiles) :
          /\ store = ArchiveStore(names)
          /\ dirs = {n[1] : n \in names}
    /\ api = [t \in ApiTypes |-> {}]
    /\ report = None
    /\ merge_results = NotMerged
    /\ NoPlan
    /\ NoRun
    /\ NoFetch
    /\ NoSleep
    /\ NoTakeout

NextPlan == CalculateStrategy

SpecPlan == InitPlan /\ [][NextPlan]_vars


\* --------------------------------------------------------------- update run
\* "if strategy['estimated_requests'] > 300".
ConfirmThreshold == 300

\* The days start_date..end_date.
DaysOfRange(start_date, end_date) == start_date..end_date

\* FitbitExporter.export_data over the configured range: the table of every
\* day of the range is written for each data type in `delivered` (an endpoint
\* that fails or returns no dataset writes nothing and raises nothing).
ExportedApi(start_date, end_date, delivered) ==
    [t \in ApiTypes |->
        IF t \in delivered
        THEN {a \in api[t] : a.date \notin DaysOfRange(start_date, end_date)}
                \cup {[date |-> d, data |-> NextFetchId] :
                        d \in DaysOfRange(start_date, end_date)}
        ELSE api[t]]

\* What one export run may deliver: every data type, or none.
Deliveries == {ApiTypes, {}}

\* Mutant: the download runs with the export range the configuration file
\* already had.
download_date_range_stale_config(start_date, end_date, kind, ok) ==
    /\ export_range' = export_range
    /\ downloads' = Append(downloads,
            [start |-> start_date, end |-> end_date, kind |-> kind, ok |-> ok])
    /\ IF ok
       THEN \E delivered \in Deliveries :
                api' = ExportedApi(start_date, end_date, delivered)
       ELSE api' = api

\* SmartUpdater.download_date_range(start_date, end_date): the configuration
\* file gets the range; then either the exporter raises before it requests
\* anything (no credentials, no token: the call returns False) or it exports
\* the range (the call returns True). `ok` is the value returned.
download_date_range(start_date, end_date, kind, ok) ==
    /\ export_range' = <<start_date, end_date>>
    /\ downloads' = Append(downloads,
            [start |-> start_date, end |-> end_date, kind |-> kind, ok |-> ok])
    /\ IF ok
       THEN \E delivered \in Deliveries :
                api' = ExportedApi(start_date, end_date, delivered)
       ELSE api' = api

\* Mutant: a plan of exactly 300 requests is put to the caller too.
OutcomeOfPlanPromptAtThreshold(dry_run, plan) ==
    IF dry_run THEN "dry_run"
    ELSE IF plan.total_days = 0 THEN "up_to_date"
    ELSE IF plan.estimated_requests >= ConfirmThreshold THEN "confirm"
    ELSE "executing"

\* Mutant: an empty plan is executed like any other.
OutcomeOfPlanNoUpToDate(dry_run, plan) ==
    IF dry_run THEN "dry_run"
    ELSE IF plan.estimated_requests > ConfirmThreshold THEN "confirm"
    ELSE "executing"

\* The branch run_update takes once the strategy is printed.
OutcomeOfPlan(dry_run, plan) ==
    IF dry_run THEN "dry_run"
    ELSE IF plan.total_days = 0 THEN "up_to_date"
    ELSE IF plan.estimated_requests > ConfirmThreshold THEN "confirm"
    ELSE "executing"

\* Mutant: planning already writes the planned recent range to the
\* configuration file.
StartRunWritesConfig(dry_run, recent_only, fill_gaps) ==
    /\ pc = "idle"
    /\ \E now \in Todays :
          /\ today' = now
          /\ strategy' = calculate_download_strategy(now)
          /\ pc' = OutcomeOfPlan(dry_run, calculate_download_strategy(now))
          /\ export_range' =
                IF calculate_download_strategy(now).recent_data = None
                THEN export_range
                ELSE <<calculate_download_strategy(now).recent_data[1],
                       calculate_download_strategy(now).recent_data[2]>>
    /\ flags' = [dry_run |-> dry_run, recent_only |-> recent_only,
                 fill_gaps |-> fill_gaps]
    /\ UNCHANGED <<store, dirs, api, report, merge_results, proceed,
                   results, gap_index, downloads>>
    /\ UNCHANGED <<fetchVars, takeoutVars, sleepVars>>

\* run_update(dry_run, recent_only, fill_gaps) up to its first return or to
\* the confirmation prompt.
StartRun(dry_run, recent_only, fill_gaps) ==
    /\ pc = "idle"
    /\ \E now \in Todays :
          /\ today' = now
          /\ strategy' = calculate_download_strategy(now)
          /\ pc' = OutcomeOfPlan(dry_run, calculate_download_strategy(now))
    /\ flags' = [dry_run |-> dry_run, recent_only |-> recent_only,
                 fill_gaps |-> fill_gaps]
    /\ UNCHANGED <<store, dirs, api, report, merge_results, proceed,
                   results, gap_index, export_range, downloads>>
    /\ UNCHANGED <<fetchVars, takeoutVars, sleepVars>>

\* click.confirm("Proceed with large download?").
Confirm(answer) ==
    /\ pc = "confirm"
    /\ proceed' = Append(proceed, answer)
    /\ pc' = IF answer THEN "executing" ELSE "cancelled"
    /\ UNCHANGED <<store, dirs, api, report, merge_results, planVars,
                   flags, results, gap_index, export_range, downloads>>
    /\ UNCHANGED <<fetchVars, takeoutVars, sleepVars>>

\* "Apply mode filters".
ModeFiltered(plan) ==
    IF flags.recent_only THEN [plan EXCEPT !.priority_gaps = <<>>]
    ELSE IF ~flags.fill_gaps THEN [plan EXCEPT !.recent_data = None]
    ELSE plan

\* Where execute_download_strategy goes after the recent download.
AfterRecent(plan) ==
    IF flags.recent_only \/ plan.priority_gaps = <<>> THEN "merge" ELSE "gaps"

\* The mode filters and the first part of execute_download_strategy: the
\* recent data is downloaded if the filtered strategy has a recent range.
ExecuteRecent ==
    /\ pc = "executing"
    /\ LET plan == ModeFiltered(strategy)
       IN  /\ strategy' = plan
           /\ pc' = AfterRecent(plan)
           /\ gap_index' = 1
           /\ \/ /\ plan.recent_data # None
                 /\ \E ok \in BOOLEAN :
                       /\ download_date_range(plan.recent_data[1],
                                              plan.recent_data[2], "recent", ok)
                       /\ results' = [recent_success |-> ok,
                                      gaps_filled |-> 0, gaps_failed |-> 0]
              \/ /\ plan.recent_data = None
                 /\ results' = [recent_success |-> FALSE,
                                gaps_filled |-> 0, gaps_failed |-> 0]
                 /\ UNCHANGED <<api, export_range, downloads>>
    /\ UNCHANGED <<store, dirs, report, merge_results, today, flags, proceed>>
    /\ UNCHANGED <<fetchVars, takeoutVars, sleepVars>>

\* Mutant: the loop over the gaps ends at the first gap that fails.
AfterGapStopAtFailure(success, index, gaps) ==
    IF ~success \/ index = Len(gaps) THEN "merge" ELSE "gaps"

\* Where the loop over strategy['priority_gaps'] goes after the gap at
\* `index`, whose download returned `success`.
AfterGap(success, index, gaps) ==
    IF index = Len(gaps) THEN "merge" ELSE "gaps"

\* One turn of the loop over strategy['priority_gaps'].
DownloadGap ==
    /\ pc = "gaps"
    /\ LET gap == strategy.priority_gaps[gap_index]
       IN  \E ok \in BOOLEAN :
              /\ download_date_range(gap[1], gap[2], "gap", ok)
              /\ results' = IF ok
                            THEN [results EXCEPT !.gaps_filled = @ + 1]
                            ELSE [results EXCEPT !.gaps_failed = @ + 1]
              /\ pc' = AfterGap(ok, gap_index, strategy.priority_gaps)
    /\ gap_index' = gap_index + 1
    /\ UNCHANGED <<store, dirs, report, merge_results, planVars, flags,
                   proceed>>
    /\ UNCHANGED <<fetchVars, takeoutVars, sleepVars>>

\* Mutant: the merge pass runs after every execution.
ShouldMergeAlways(res) == TRUE

\* results.get('recent_success') or results.get('gaps_filled', 0) > 0
ShouldMerge(res) == res.recent_success \/ res.gaps_filled > 0

\* "Merge new data" and the return of run_update.
MergeDownloaded ==
    /\ pc = "merge"
    /\ pc' = "done"
    /\ \/ /\ ShouldMerge(results)
          /\ merge_all_data
       \/ /\ ~ShouldMerge(results)
          /\ UNCHANGED <<store, dirs, merge_results>>
    /\ UNCHANGED <<api, report, planVars, flags, proceed, results, gap_index,
                   export_range, downloads>>
    /\ UNCHANGED <<fetchVars, takeoutVars, sleepVars>>

Init ==
    /\ \E names \in KSubsets(StoredTypes \X StoreDays, MaxRunFiles) :
          /\ store = ArchiveStore(names)
          /\ dirs = {n[1] : n \in names}
    /\ api = [t \in ApiTypes |-> {}]
    /\ report = None
    /\ merge_results = NotMerged
    /\ NoPlan
    /\ NoRun
    /\ NoFetch
    /\ NoSleep
    /\ NoTakeout

Next ==
    \/ \E dry_run \in BOOLEAN, recent_only \in BOOLEAN, fill_gaps \in BOOLEAN :
          StartRun(dry_run, recent_only, fill_gaps)
    \/ \E answer \in BOOLEAN : Confirm(answer)
    \/ ExecuteRecent
    \/ DownloadGap
    \/ MergeDownloaded

Spec == Init /\ [][Next]_vars

\* ------------------------------------------------------------- fetch plans
\* Days a fetch plan may cover: 1..MaxFetchDay.
MaxFetchDay == 2

FetchDays == 1..MaxFetchDay

\* The HTTP statuses the Fitbit API answers with: success, throttled,
\* unauthorized, any other failure.
Statuses == {200, 429, 401, 500}

\* The download methods download_date_range calls for each day, in order.
StreamlitMethods == <<"heart_rate", "sleep", "activity">>

\* The _export_* methods export_data calls for each day, in order.
ExporterMethods == <<"heart_rate", "sleep", "activity", "steps">>

MethodsOf(client) ==
    IF client = "streamlit" THEN StreamlitMethods ELSE ExporterMethods

\* StreamlitFitbitClient.api_request: the statuses it may receive. Without a
\* usable token it raises before any request (<<>>); a 429 is followed by
\* time.sleep(60) and one more request, whose status is final.
api_request(tk) ==
    IF tk # "valid" THEN {<<>>}
    ELSE {<<s>> : s \in Statuses \ {429}} \cup {<<429, s>> : s \in Statuses}

\* api_request returned the response's JSON (it raised otherwise).
Returned(run) == run # <<>> /\ run[Len(run)] = 200

\* api_request raised "Not authenticated" or "Authentication expired".
AuthFailure(run) == run = <<>> \/ run[Len(run)] = 401

\* The API calls one download method of the Streamlit client makes:
\* download_activity requests the steps and then the summary, the others make
\* one request; the first call that raises ends the method.
StreamlitCalls(method, tk) ==
    IF method = "activity"
    THEN {<<r>> : r \in {x \in api_request(tk) : ~Returned(x)}}
            \cup {<<r1, r2>> : r1 \in {x \in api_request(tk) : Returned(x)},
                               r2 \in api_request(tk)}
    ELSE {<<r>> : r \in api_request(tk)}

\* One call of the fitbit library by an _export_* method: the library sends
\* the request once and raises on any status but 200.
ExporterCalls == {<<<<s>>>> : s \in Statuses}

\* Every API call of the method returned.
AllReturned(calls) == \A i \in 1..Len(calls) : Returned(calls[i])

RECURSIVE SumLen(_, _)
SumLen(calls, i) ==
    IF i > Len(calls) THEN 0 ELSE Len(calls[i]) + SumLen(calls, i + 1)

\* The requests sent and the 60 s sleeps made during the calls.
RequestsOf(calls) == SumLen(calls, 1)
WaitsOf(calls) ==
    Cardinality({i \in 1..Len(calls) : Len(calls[i]) = 2})

\* The day files a download method of the Streamlit client writes into the
\* data folder once its calls returned.
StreamlitTypes(method) ==
    IF method = "activity" THEN {"steps", "activity_summary"} ELSE {method}

\* The folders the method makes on the way (output_file.parent.mkdir): the
\* summary's folder is made only when the response holds a summary.
DirsMade(method, has_data) ==
    IF method # "activity" THEN {method}
    ELSE IF has_data THEN {"steps", "activity_summary"}
    ELSE {"steps"}

\* The file an _export_* method writes into the API folder.
ExporterType(method) ==
    IF method = "activity" THEN "activity_summary" ELSE method

\* The loop of download_date_range / export_data after one method: the next
\* method of the day, the next day, or the return (both plans report True:
\* download_date_range returns True, export_with_date_range returns normally).
Advance(f) ==
    IF f.step < Len(MethodsOf(f.client)) THEN [f EXCEPT !.step = @ + 1]
    ELSE IF f.day < f.end_date THEN [f EXCEPT !.day = @ + 1, !.step = 1]
    ELSE [f EXCEPT !.pc = "returned", !.result = <<TRUE>>]

\* A fetch plan starts: StreamlitFitbitClient.download_date_range or
\* FitbitExporter.export_data over start_date..end_date.
StartFetchPlan(client, start_date, end_date, tk) ==
    /\ fetch = None
    /\ fetch' = [client |-> client, pc |-> "fetching",
                 start_date |-> start_date, end_date |-> end_date,
                 day |-> start_date, step |-> 1,
                 requests |-> 0, waits |-> 0, errors |-> 0,
                 auth_failed |-> FALSE, result |-> <<>>]
    /\ token' = tk
    /\ UNCHANGED <<store, dirs, api, report, merge_results, planVars, runVars,
                   last_call, takeoutVars, sleepVars>>

\* The stored token passes its expires_at while the plan runs.
ExpireToken ==
    /\ fetch # None
    /\ fetch.pc = "fetching"
    /\ fetch.client = "streamlit"
    /\ token = "valid"
    /\ token' = "invalid"
    /\ UNCHANGED <<store, dirs, api, report, merge_results, planVars, runVars,
                   fetch, last_call, takeoutVars, sleepVars>>

\* One download_heart_rate / download_sleep / download_activity call of the
\* Streamlit client and the step of the loop that follows it: an exception of
\* api_request is caught and logged, the loop goes on.
StreamlitDownload ==
    /\ fetch # None
    /\ fetch.pc = "fetching"
    /\ fetch.client = "streamlit"
    /\ LET method == StreamlitMethods[fetch.step]
       IN  \E calls \in StreamlitCalls(method, token), has_data \in BOOLEAN :
              /\ last_call' = calls
              /\ fetch' = Advance(
                    [fetch EXCEPT
                        !.requests = @ + RequestsOf(calls),
                        !.waits = @ + WaitsOf(calls),
                        !.errors = IF AllReturned(calls) THEN @ ELSE @ + 1,
                        !.auth_failed =
                            @ \/ \E i \in 1..Len(calls) : AuthFailure(calls[i])])
              /\ IF AllReturned(calls)
                 THEN /\ dirs' = dirs \cup DirsMade(method, has_data)
                      /\ store' = [t \in DataTypes |->
                            IF has_data /\ t \in StreamlitTypes(method)
                            THEN {f \in store[t] :
                                    ~(f.date = fetch.day /\ f.sfx = "")}
                                 \cup {[date |-> fetch.day, sfx |-> "",
                                        data |-> NextFetchId]}
                            ELSE store[t]]
                 ELSE UNCHANGED <<store, dirs>>
    /\ UNCHANGED <<api, report, merge_results, planVars, runVars, token,
                   takeoutVars, sleepVars>>

\* One _export_heart_rate / _export_sleep / _export_activity / _export_steps
\* call of the exporter and the step of the loop that follows it: whatever
\* the library raises is swallowed (and echoed unless it mentions 429).
ExporterExport ==
    /\ fetch # None
    /\ fetch.pc = "fetching"
    /\ fetch.client = "exporter"
    /\ LET method == ExporterMethods[fetch.step]
       IN  \E calls \in ExporterCalls, has_data \in BOOLEAN :
              /\ last_call' = calls
              /\ fetch' = Advance(
                    [fetch EXCEPT
                        !.requests = @ + RequestsOf(calls),
                        !.errors = IF AllReturned(calls) \/ calls[1][1] = 429
                                   THEN @ ELSE @ + 1,
                        !.auth_failed = @ \/ AuthFailure(calls[1])])
              /\ api' = IF AllReturned(calls) /\ has_data
                        THEN [api EXCEPT ![ExporterType(method)] =
                                {a \in @ : a.date # fetch.day}
                                  \cup {[date |-> fetch.day,
                                         data |-> NextFetchId]}]
                        ELSE api
    /\ UNCHANGED <<store, dirs, report, merge_results, planVars, runVars,
                   token, takeoutVars, sleepVars>>

InitFetch ==
    /\ store = NoFiles
    /\ dirs = {}
    /\ api = [t \in ApiTypes |-> {}]
    /\ report = None
    /\ merge_results = NotMerged
    /\ NoPlan
    /\ NoRun
    /\ NoFetch
    /\ NoSleep
    /\ NoTakeout

NextFetch ==
    \/ \E client \in {"streamlit", "exporter"}, start_date \in FetchDays,
          end_date \in FetchDays, tk \in {"valid", "invalid"} :
            /\ start_date <= end_date
            /\ StartFetchPlan(client, start_date, end_date, tk)
    \/ ExpireToken
    \/ StreamlitDownload
    \/ ExporterExport

SpecFetch == InitFetch /\ [][NextFetch]_vars

\* ------------------------------------------------------- archive processor
\* Days the records of an archive file may fall on: 1..MaxRawDay.
MaxRawDay == 2
\* Records in one archive file.
MaxRecords == 3
\* Times extract_and_process_zip is handed the same archive file.
MaxPasses == 2
\* Times of day a record's dateTime may carry.
SlotsPerDay == 2

RawDays == 1..MaxRawDay

\* A dateTime string in the format '%m/%d/%y %H:%M:%S', as the number of its
\* time slot since day 0.
Timestamps == SlotsPerDay..(SlotsPerDay * (MaxRawDay + 1) - 1)

\* A dateTime string pd.to_datetime(format=...) does not accept.
BadTimestamp == 0 - 1

\* Mutant: the date is taken half a day late.
DateOfShifted(datetime) == (datetime + 1) \div SlotsPerDay

\* df['datetime'].dt.date.
DateOf(datetime) == datetime \div SlotsPerDay

\* The flat metrics modelled: one with a numeric value (calories, like steps
\* and distance) and heart_rate with its nested value.
FlatTypes == {"calories", "heart_rate"}

\* The "value" of a record. calories: a string, <<n>> the digits of n, <<>>
\* the empty string; heart_rate: a dict {"bpm", "confidence"} or null.
RawValues(t) ==
    IF t = "calories" THEN {<<7>>, <<>>}
    ELSE {[bpm |-> 62, confidence |-> 3], None}

RawRecords(t) ==
    [dateTime : Timestamps \cup {BadTimestamp}, value : RawValues(t)]

\* The sequences over S of length at most n.
SeqsUpTo(S, n) == UNION {[1..k -> S] : k \in 0..n}

\* isinstance(x, dict).
IsDict(x) == x # None

\* A cell of a CSV row: the number n, or empty (None / NaN).
Cell(n) == <<n>>
EmptyCell == <<>>

\* The row of the output table a record becomes (the columns written): the
\* value parsed as a number, or bpm and confidence taken out of the dict; a
\* value that is no dict is passed on as heart_rate, with no confidence.
RowOf(t, r) ==
    IF t = "calories"
    THEN [datetime |-> r.dateTime, calories |-> Cell(r.value[1])]
    ELSE [datetime |-> r.dateTime,
          heart_rate |-> IF IsDict(r.value) THEN Cell(r.value.bpm)
                         ELSE EmptyCell,
          confidence |-> IF IsDict(r.value) THEN Cell(r.value.confidence)
                         ELSE EmptyCell]

\* pd.to_datetime or astype(float) raises on a record of the file.
Raises(t, records) ==
    \E i \in 1..Len(records) :
        \/ records[i].dateTime = BadTimestamp
        \/ t = "calories" /\ records[i].value = <<>>

RECURSIVE RowsOfDay(_, _, _, _)
\* The rows of the records dated d, in the file's order (df.groupby('date')).
RowsOfDay(t, records, d, i) ==
    IF i > Len(records) THEN <<>>
    ELSE IF DateOf(records[i].dateTime) = d
    THEN <<RowOf(t, records[i])>> \o RowsOfDay(t, records, d, i + 1)
    ELSE RowsOfDay(t, records, d, i + 1)

\* The dates df.groupby('date') yields; none if the file is empty or a
\* conversion raised before the loop.
GroupDates(t, records) ==
    IF Raises(t, records) THEN {}
    ELSE {DateOf(records[i].dateTime) : i \in 1..Len(records)}

\* Mutant: the day's rows are appended to the table the file holds.
WriteTableAppends(old_rows, day_data) == old_rows \o day_data

\* day_data.to_csv(output_file, index=False): the file's rows afterwards,
\* old_rows being the rows it held (<<>> if it did not exist).
WriteTable(old_rows, day_data) == day_data

\* The rows of the day file t/d.csv (<<>> if the processor wrote none).
TableOf(t, d) ==
    IF <<t, d>> \in DOMAIN tables THEN tables[<<t, d>>] ELSE <<>>

\* One turn of a loop of extract_and_process_zip over the files of a flat
\* metric: process_calories_json / process_heart_rate_json on raw_unit, then
\* stats['files_processed'] += 1.
ProcessFlatJson ==
    /\ raw_unit # None
    /\ stats.files_processed < MaxPasses
    /\ LET t       == raw_unit.type
           records == raw_unit.records
           dates   == GroupDates(t, records)
       IN  /\ tables' = [k \in DOMAIN tables \cup {<<t, d>> : d \in dates} |->
                            IF k[1] = t /\ k[2] \in dates
                            THEN WriteTable(TableOf(t, k[2]),
                                            RowsOfDay(t, records, k[2], 1))
                            ELSE tables[k]]
           /\ written' = {<<t, d>> : d \in dates}
           /\ store' = [store EXCEPT ![t] =
                            {f \in @ : ~(f.date \in dates /\ f.sfx = "")}
                               \cup {[date |-> d, sfx |-> "", data |-> 0] :
                                        d \in dates}]
           /\ dirs' = IF dates = {} THEN dirs ELSE dirs \cup {t}
           /\ errors' = IF Raises(t, records) THEN errors + 1 ELSE errors
    /\ stats' = [stats EXCEPT !.files_processed = @ + 1]
    /\ UNCHANGED <<api, report, merge_results, planVars, runVars, fetchVars,
                   sleepVars,
                   raw_unit>>

\* The table an earlier archive left for day 1 of data type t.
EarlierRows(t) ==
    <<RowOf(t, [dateTime |-> SlotsPerDay,
                value |-> IF t = "calories" THEN <<9>>
                          ELSE [bpm |-> 80, confidence |-> 2]])>>

\* extract_and_process_zip has reached a file of a flat metric; the output
\* folder is empty or holds the day-1 table of an earlier archive.
InitTakeout ==
    /\ \E t \in FlatTypes, earlier \in BOOLEAN :
          /\ \E records \in SeqsUpTo(RawRecords(t), MaxRecords) :
                raw_unit = [type |-> t, records |-> records]
          /\ tables = IF earlier THEN (<<t, 1>> :> EarlierRows(t)) ELSE <<>>
          /\ store = IF earlier
                     THEN [NoFiles EXCEPT ![t] =
                              {[date |-> 1, sfx |-> "", data |-> 0]}]
                     ELSE NoFiles
          /\ dirs = IF earlier THEN {t} ELSE {}
    /\ written = {}
    /\ stats = [files_processed |-> 0, files_skipped |-> 0]
    /\ errors = 0
    /\ api = [t \in ApiTypes |-> {}]
    /\ report = None
    /\ merge_results = NotMerged
    /\ NoPlan
    /\ NoRun
    /\ NoFetch
    /\ NoSleep

NextTakeout == ProcessFlatJson

SpecTakeout == InitTakeout /\ [][NextTakeout]_vars

\* --------------------------------------------- archive processor, CSV files
\* The metrics the archive holds as one CSV file per date.
CsvTypes == {"spo2", "temperature", "hrv"}

\* A row of the CSV file that has no timestamp / recorded_time value.
NoTimestamp == 0

\* The date part of a CSV file's name: a day, or for an HRV summary also a
\* month only ("2024-08"), which strptime(date_str + '-01') turns into the
\* month's first day.
CsvNames(t) ==
    {[date |-> d, month_only |-> FALSE] : d \in RawDays}
        \cup IF t = "hrv" THEN {[date |-> 1, month_only |-> TRUE]} ELSE {}

\* 'wrist' if 'Wrist' is in the file name, else 'device'; other metrics
\* have no variant.
CsvVariants(t) == IF t = "temperature" THEN {"wrist", "device"} ELSE {""}

\* Mutant: a row with a timestamp goes to the day of its timestamp.
CsvDayOfRowDate(name, timestamp) ==
    IF timestamp = NoTimestamp THEN name.date ELSE DateOf(timestamp)

\* The day whose file a row of the CSV file is written to: the date parsed
\* from the file name, whatever the row's timestamp.
CsvDayOf(name, timestamp) == name.date

\* The rows of the file that go to day d, in the file's order.
RECURSIVE CsvRowsOfDay(_, _, _, _)
CsvRowsOfDay(name, rows, d, i) ==
    IF i > Len(rows) THEN <<>>
    ELSE IF CsvDayOf(name, rows[i]) = d
    THEN <<[datetime |-> rows[i]]>> \o CsvRowsOfDay(name, rows, d, i + 1)
    ELSE CsvRowsOfDay(name, rows, d, i + 1)

\* The rows of the day file t/d[_sfx].csv (<<>> if none was written).
CsvTableOf(t, d, sfx) ==
    IF <<t, d, sfx>> \in DOMAIN tables THEN tables[<<t, d, sfx>>] ELSE <<>>

\* One turn of a loop of extract_and_process_zip over the CSV files:
\* process_spo2_csv / process_temperature_csv / process_hrv_csv on raw_unit
\* (an empty file is left alone), then stats['files_processed'] += 1.
ProcessCsv ==
    /\ raw_unit # None
    /\ stats.files_processed < MaxPasses
    /\ LET t     == raw_unit.type
           sfx   == raw_unit.variant
           rows  == raw_unit.rows
           dates == {CsvDayOf(raw_unit.name, rows[i]) : i \in 1..Len(rows)}
       IN  /\ tables' = [k \in DOMAIN tables \cup {<<t, d, sfx>> : d \in dates}
                          |-> IF k[1] = t /\ k[2] \in dates /\ k[3] = sfx
                              THEN WriteTable(CsvTableOf(t, k[2], sfx),
                                     CsvRowsOfDay(raw_unit.name, rows, k[2], 1))
                              ELSE tables[k]]
           /\ written' = {<<t, d, sfx>> : d \in dates}
           /\ store' = [store EXCEPT ![t] =
                            {f \in @ : ~(f.date \in dates /\ f.sfx = sfx)}
                               \cup {[date |-> d, sfx |-> sfx, data |-> 0] :
                                        d \in dates}]
           /\ dirs' = IF dates = {} THEN dirs ELSE dirs \cup {t}
    /\ stats' = [stats EXCEPT !.files_processed = @ + 1]
    /\ UNCHANGED <<api, report, merge_results, planVars, runVars, fetchVars,
                   sleepVars,
                   raw_unit, errors>>

\* extract_and_process_zip has reached a CSV file; the output folder is
\* empty.
InitCsv ==
    /\ \E t \in CsvTypes :
          \E name \in CsvNames(t), variant \in CsvVariants(t),
             rows \in SeqsUpTo(Timestamps \cup {NoTimestamp}, MaxRecords) :
                raw_unit = [type |-> t, name |-> name, variant |-> variant,
                            rows |-> rows]
    /\ tables = <<>>
    /\ store = NoFiles
    /\ dirs = {}
    /\ written = {}
    /\ stats = [files_processed |-> 0, files_skipped |-> 0]
    /\ errors = 0
    /\ api = [t \in ApiTypes |-> {}]
    /\ report = None
    /\ merge_results = NotMerged
    /\ NoPlan
    /\ NoRun
    /\ NoFetch
    /\ NoSleep

NextCsv == ProcessCsv

SpecCsv == InitCsv /\ [][NextCsv]_vars

\* ----------------------------------------------------- sleep tab (dashboard)
\* Days the sleep folder may hold a file for: 1..MaxSleepDay.
MaxSleepDay == 2

\* Sleep sessions (rows) in the sleep folder.
MaxSessions == 4

SleepDays == 1..MaxSleepDay

\* minutesAsleep of a session: two short and two long sessions.
SleepMinutes == {30, 45, 420, 480}

\* Number of rows in the day files d..MaxSleepDay of the sleep folder.
RECURSIVE SessionCount(_, _)
SessionCount(files, d) ==
    IF d > MaxSleepDay THEN 0
    ELSE Len(files[d]) + SessionCount(files, d + 1)

\* pd.read_csv of sleep/d.csv: every row carries the file's day as 'date'.
SleepRowsOfFile(d) ==
    [i \in 1..Len(sleep_files[d]) |->
        [date |-> d, minutesAsleep |-> sleep_files[d][i]]]

\* load_data_type('sleep', start_date, end_date): the rows of the day files
\* of the range, concatenated in day order (a missing or empty file adds none).
RECURSIVE load_data_type(_, _)
load_data_type(current_date, end_date) ==
    IF current_date > end_date THEN <<>>
    ELSE SleepRowsOfFile(current_date)
             \o load_data_type(current_date + 1, end_date)

\* The rows of day d in a table, by position.
SessionsOfDay(sleep_data, d) ==
    {i \in 1..Len(sleep_data) : sleep_data[i].date = d}

\* The ways of naming, for every day of the table, one session with the
\* largest minutesAsleep of that day (more than one way only when two
\* sessions of a day tie for the largest).
MainChoices(sleep_data) ==
    LET present == {d \in SleepDays : SessionsOfDay(sleep_data, d) # {}}
    IN  {main \in [present -> 1..Len(sleep_data)] :
            \A d \in present :
                /\ main[d] \in SessionsOfDay(sleep_data, d)
                /\ \A j \in SessionsOfDay(sleep_data, d) :
                      sleep_data[j].minutesAsleep
                          <= sleep_data[main[d]].minutesAsleep}

\* detect_naps ranking the whole table at once: only the day of the first
\* row gets a main sleep.
detect_naps_first_day(sleep_data, main) ==
    [i \in 1..Len(sleep_data) |->
        [date |-> sleep_data[i].date,
         minutesAsleep |-> sleep_data[i].minutesAsleep,
         sleep_type |-> IF main[sleep_data[1].date] = i
                        THEN "Main Sleep" ELSE "Nap"]]

\* detect_naps(sleep_data): the table with a sleep_type column; per day the
\* session main[d] is "Main Sleep", every other one "Nap".
detect_naps(sleep_data, main) ==
    [i \in 1..Len(sleep_data) |->
        [date |-> sleep_data[i].date,
         minutesAsleep |-> sleep_data[i].minutesAsleep,
         sleep_type |-> IF main[sleep_data[i].date] = i
                        THEN "Main Sleep" ELSE "Nap"]]

\* A later archive writes the day file sleep/d.csv again, with one more
\* session of that day.
AddSession(d, minutes) ==
    /\ SessionCount(sleep_files, 1) < MaxSessions
    /\ sleep_files' = [sleep_files EXCEPT ![d] = Append(@, minutes)]
    /\ UNCHANGED sleep_data_with_types
    /\ UNCHANGED <<store, dirs, api, report, merge_results, planVars, runVars,
                   fetchVars, takeoutVars>>

\* The sleep tab is drawn for the selected date range: the sessions are
\* loaded and, if there are any, classified.
RenderSleepTab(start_date, end_date) ==
    LET sleep_data == load_data_type(start_date, end_date)
    IN  /\ sleep_data # <<>>
        /\ \E main \in MainChoices(sleep_data) :
              sleep_data_with_types' = detect_naps(sleep_data, main)
        /\ UNCHANGED sleep_files
        /\ UNCHANGED <<store, dirs, api, report, merge_results, planVars,
                       runVars, fetchVars, takeoutVars>>

InitSleep ==
    /\ sleep_files = [d \in SleepDays |-> <<>>]
    /\ sleep_data_with_types = <<>>
    /\ store = [t \in DataTypes |-> {}]
    /\ dirs = {"sleep"}
    /\ api = [t \in ApiTypes |-> {}]
    /\ report = None
    /\ merge_results = NotMerged
    /\ NoPlan
    /\ NoRun
    /\ NoFetch
    /\ NoTakeout

NextSleep ==
    \/ \E d \in SleepDays, minutes \in SleepMinutes : AddSession(d, minutes)
    \/ \E start_date \in SleepDays, end_date \in SleepDays :
          start_date <= end_date /\ RenderSleepTab(start_date, end_date)

SpecSleep == InitSleep /\ [][NextSleep]_vars





\* --------------------------------------------------- merge claims (C4-C6)
\* The files of the store's folder of t named after day d, before a step.
StoreFilesOf(t, d) == {f \in store[t] : f.date = d}

\* The store's copy of API file a.
CopyOf(a) == [date |-> a.date, sfx |-> "", data |-> a.data]

NonSummaryApiTypes == ApiTypes \ {"activity_summary"}

C5_ActivitySummaryFetchedWins ==
    [][MergeAllData =>
        LET t == "activity_summary"
        IN  /\ \A a \in api[t] :
                  {f \in store'[t] : f.date = a.date} = {CopyOf(a)}
            /\ api[t] # {} =>
                  /\ merge_results'[t].added = Cardinality(api[t])
                  /\ merge_results'[t].skipped = 0
    ]_vars

\* The store holds the fetched activity summaries of both days, one of them
\* from a fetch later than the first two, and no archive table is left.
C5_Witness ==
    /\ "activity_summary" \in DOMAIN merge_results
    /\ merge_results["activity_summary"].added = 2
    /\ store["activity_summary"] = {CopyOf(a) : a \in api["activity_summary"]}
    /\ \E a \in api["activity_summary"] : a.data > 2

Planned == strategy # None

\* The days some data type has a day file for.
AllCoveredDays == UNION {CoveredDays(t) : t \in DataTypes}

\* The day count the plan records for its recent range (0 without a range).
RecordedRecentDays ==
    IF strategy.recent_data = None THEN 0 ELSE strategy.recent_data[3]

\* C7: on a non-empty store, with max_day the latest covered day over all
\* data types, the plan's recent_data is (max_day + 1, today) covering
\* today - max_day days when today > max_day, and None, contributing 0 days,
\* when today <= max_day.
C7_RecentRangeNonEmptyStore ==
    (Planned /\ AllCoveredDays # {}) =>
        LET max_day == SetMax(AllCoveredDays)
        IN  /\ today > max_day =>
                strategy.recent_data = <<max_day + 1, today, today - max_day>>
            /\ today <= max_day => strategy.recent_data = None
            /\ strategy.total_days =
                  (IF today > max_day THEN today - max_day ELSE 0)
                      + SumGapDays(strategy.priority_gaps, 1)

\* max_day = T - 3, held by a data type that is no priority type: (T-2, T).
C7_Witness ==
    /\ Planned
    /\ CoveredDays("steps") # {}
    /\ SetMax(CoveredDays("steps")) = today - 3
    /\ \A t \in DataTypes \ {"steps"} :
          \A d \in CoveredDays(t) : d < today - 3
    /\ CoveredDays("heart_rate") # {}
    /\ strategy.recent_data = <<today - 2, today, 3>>

\* today <= max_day: no recent range.
C7_WitnessNoRange ==
    /\ Planned
    /\ AllCoveredDays # {}
    /\ today < SetMax(AllCoveredDays)
    /\ strategy.recent_data = None

\* C8: on a cold start (no data type has a covered day) the recent range is
\* (today - update_recent_days + 1, today), exactly update_recent_days days,
\* and the day count recorded for it is the number of days it contains.
C8_ColdStartRange ==
    (Planned /\ AllCoveredDays = {}) =>
        /\ strategy.recent_data[1] = today - update_recent_days + 1
        /\ strategy.recent_data[2] = today
        /\ strategy.recent_data[3] =
              strategy.recent_data[2] - strategy.recent_data[1] + 1

\* What the code plans on a cold start: the range starts update_recent_days
\* before today, one day more than the count recorded with it.
C8_CodeColdStartRange ==
    (Planned /\ AllCoveredDays = {}) =>
        /\ strategy.recent_data =
              <<today - update_recent_days, today, update_recent_days>>
        /\ strategy.recent_data[2] - strategy.recent_data[1] + 1
              = update_recent_days + 1

\* The gaps of the priority data types no longer than max_gap_days, as the
\* specification defines them.
ExpectedPriorityGaps ==
    UNION {{<<g[1], g[2], t, g[3]>> :
               g \in {h \in ExpectedGaps(CoveredDays(t)) : h[3] <= max_gap_days}} :
           t \in SeqRange(priority_types)}

\* C9: priority_gaps holds exactly the gaps of the priority_types whose
\* length is <= max_gap_days, each once, in ascending order of length.
C9_PriorityGaps ==
    Planned =>
        LET pg == strategy.priority_gaps
        IN  /\ SeqRange(pg) = ExpectedPriorityGaps
            /\ Len(pg) = Cardinality(ExpectedPriorityGaps)
            /\ \A i \in 1..Len(pg), j \in 1..Len(pg) :
                  i < j => pg[i][4] <= pg[j][4]

\* The sort moved the shorter gap of the later priority type to the front.
C9_Witness ==
    /\ Planned
    /\ Len(strategy.priority_gaps) = 2
    /\ strategy.priority_gaps[1][3] = "activity_summary"
    /\ strategy.priority_gaps[2][3] = "heart_rate"
    /\ strategy.priority_gaps[1][4] < strategy.priority_gaps[2][4]
    /\ strategy.priority_gaps[2][4] = max_gap_days

\* A priority gap longer than max_gap_days and a gap of a data type that is
\* no priority type are both left out.
C9_WitnessLeftOut ==
    /\ Planned
    /\ strategy.priority_gaps = <<>>
    /\ \E g \in ExpectedGaps(CoveredDays("heart_rate")) : g[3] > max_gap_days
    /\ ExpectedGaps(CoveredDays("steps")) # {}

\* ------------------------------------------------- update-run claims (C10)
\* The calendar days the plan's recent range contains (0 without a range).
RecentRangeDays ==
    IF strategy.recent_data = None THEN 0
    ELSE strategy.recent_data[2] - strategy.recent_data[1] + 1

\* run_update was called without dry_run.
RealRun == pc # "idle" /\ ~flags.dry_run

\* The strategy is still the one calculate_download_strategy returned (the
\* mode filters have not been applied).
PlanAsCalculated == pc \in {"up_to_date", "confirm", "cancelled", "executing"}

\* C10: a run without dry_run ends as up_to_date if and only if the plan's
\* total_days is 0, total_days being the days of the recent range plus the
\* lengths of all planned priority gaps; up_to_date is terminal: nothing was
\* and nothing is executed in that run.
C10_UpToDateIffNothingToDo ==
    RealRun =>
        /\ pc = "up_to_date" <=> strategy.total_days = 0
        /\ PlanAsCalculated =>
              /\ strategy.total_days =
                    RecordedRecentDays + SumGapDays(strategy.priority_gaps, 1)
              /\ strategy.total_days = 0 <=>
                    RecentRangeDays + SumGapDays(strategy.priority_gaps, 1) = 0
        /\ pc = "up_to_date" =>
              /\ ~ENABLED Next
              /\ downloads = <<>>
              /\ export_range = None
              /\ results = None
              /\ merge_results = NotMerged

\* A run that found the store current: the latest day is not before today
\* and the only gap of a priority type is too long to be planned.
C10_Witness ==
    /\ RealRun
    /\ pc = "up_to_date"
    /\ strategy.total_days = 0
    /\ AllCoveredDays # {}
    /\ today <= SetMax(AllCoveredDays)
    /\ \E g \in ExpectedGaps(CoveredDays("heart_rate")) : g[3] > max_gap_days

\* A run with something to do went on to execute it.
C10_WitnessExecuted ==
    /\ RealRun
    /\ pc = "done"
    /\ strategy.total_days > 0
    /\ downloads # <<>>


\* -------------------------------------------- confirmation claims (C11)
\* execute_download_strategy has been entered.
Executed == pc \in {"gaps", "merge", "done"}

\* C11: a run without dry_run ends as cancelled exactly when the estimate,
\* 4 x total_days, is above 300 and the caller answered no; a plan of at most
\* 300 requests is never put to the caller and never cancelled; a plan above
\* 300 is executed only after the caller answered yes.
C11_CancelledIffDeclinedLargePlan ==
    RealRun =>
        /\ strategy.estimated_requests = 4 * strategy.total_days
        /\ pc = "cancelled" <=>
              strategy.estimated_requests > 300 /\ proceed = <<FALSE>>
        /\ strategy.estimated_requests <= 300 =>
              pc \notin {"confirm", "cancelled"} /\ proceed = <<>>
        /\ strategy.estimated_requests > 300 =>
              /\ pc \in {"confirm", "cancelled", "executing"} \/ Executed
              /\ pc = "executing" \/ Executed => proceed = <<TRUE>>
              /\ pc = "confirm" => proceed = <<>>

\* The caller declined a plan of more than 300 requests.
C11_Witness ==
    /\ RealRun
    /\ pc = "cancelled"
    /\ strategy.estimated_requests > 300
    /\ proceed = <<FALSE>>

\* A plan of exactly 300 requests was executed without a prompt, and a larger
\* one after the caller agreed.
C11_WitnessAtThreshold ==
    /\ RealRun
    /\ Executed
    /\ strategy.estimated_requests = 300
    /\ proceed = <<>>

C11_WitnessAgreed ==
    /\ RealRun
    /\ Executed
    /\ strategy.estimated_requests > 300
    /\ proceed = <<TRUE>>


\* ------------------------------------------------ mode claims (C12, C13)
\* The plan run_update calculated, as long as the store is the one it read
\* (no merge pass has run).
CalculatedPlan == calculate_download_strategy(today)

\* execute_download_strategy has returned and the merge pass has not started.
ExecutionReturned == RealRun /\ pc = "merge"

\* download_date_range was called for the range start_date..end_date.
Downloaded(kind, start_date, end_date) ==
    \E i \in 1..Len(downloads) :
        /\ downloads[i].kind = kind
        /\ downloads[i].start = start_date
        /\ downloads[i].end = end_date

\* Every priority gap of the calculated plan was downloaded.
AllPlannedGapsDownloaded ==
    \A i \in 1..Len(CalculatedPlan.priority_gaps) :
        Downloaded("gap", CalculatedPlan.priority_gaps[i][1],
                   CalculatedPlan.priority_gaps[i][2])

\* The recent range of the calculated plan, if it has one, was downloaded.
PlannedRecentDownloaded ==
    CalculatedPlan.recent_data # None =>
        Downloaded("recent", CalculatedPlan.recent_data[1],
                   CalculatedPlan.recent_data[2])

NoDownloadOfKind(kind) ==
    \A i \in 1..Len(downloads) : downloads[i].kind # kind

\* C12: an update run with neither recent_only nor fill_gaps that reaches
\* execution downloads the planned recent range, if any, and every planned
\* priority gap.
C12_PlainUpdateIsFull ==
    ExecutionReturned /\ ~flags.recent_only /\ ~flags.fill_gaps =>
        PlannedRecentDownloaded /\ AllPlannedGapsDownloaded

\* What the code does with neither flag: the gaps are downloaded, the recent
\* range never is.
C12_CodePlainUpdateSkipsRecent ==
    RealRun /\ ~flags.recent_only /\ ~flags.fill_gaps =>
        /\ NoDownloadOfKind("recent")
        /\ ExecutionReturned => AllPlannedGapsDownloaded

\* C13: with recent_only no priority gap is ever downloaded and the recent
\* range is; with fill_gaps and not recent_only the recent range is never
\* downloaded and the planned priority gaps are.
C13_ModeFlagsRestrictDownloads ==
    /\ RealRun /\ flags.recent_only =>
          /\ NoDownloadOfKind("gap")
          /\ ExecutionReturned => PlannedRecentDownloaded
    /\ RealRun /\ flags.fill_gaps /\ ~flags.recent_only =>
          /\ NoDownloadOfKind("recent")
          /\ ExecutionReturned => AllPlannedGapsDownloaded

\* What the code does: recent_only is as claimed; fill_gaps without
\* recent_only downloads the recent range and the gaps.
C13_CodeModeFlags ==
    /\ RealRun /\ flags.recent_only =>
          /\ NoDownloadOfKind("gap")
          /\ ExecutionReturned => PlannedRecentDownloaded
    /\ ExecutionReturned /\ flags.fill_gaps /\ ~flags.recent_only =>
          PlannedRecentDownloaded /\ AllPlannedGapsDownloaded


\* ------------------------------------------------- frame claims (C14)
\* The ways run_update returns without executing, and the prompt before one.
NonExecuting == {"dry_run", "up_to_date", "confirm", "cancelled"}

\* What a run must leave alone unless it executes: the store, the API staging
\* folder, the configuration file's export range, the downloads issued and
\* the merge pass.
frameVars == <<store, dirs, api, export_range, downloads, merge_results>>

\* C14: a run that ends as dry_run, up_to_date or cancelled has issued no
\* download, has not rewritten the export range, has run no merge pass, and
\* every step that led to its outcome (planning, the prompt) left the store
\* and the API staging folder as they were.
C14_NonExecutingRunsChangeNothing ==
    /\ [](pc \in NonExecuting =>
            /\ downloads = <<>>
            /\ export_range = None
            /\ results = None
            /\ merge_results = NotMerged)
    /\ [][pc' \in NonExecuting => UNCHANGED frameVars]_vars

\* A cancelled run over a store that holds files.
C14_Witness ==
    /\ pc = "cancelled"
    /\ \E t \in StoredTypes : store[t] # {}
    /\ strategy.recent_data # None
    /\ downloads = <<>>
    /\ export_range = None

\* A dry run and an up-to-date run whose plans are not the same.
C14_WitnessDryRun ==
    /\ pc = "dry_run"
    /\ strategy.total_days > 0
    /\ strategy.priority_gaps # <<>>
    /\ export_range = None

C14_WitnessUpToDate ==
    /\ pc = "up_to_date"
    /\ \E t \in StoredTypes : store[t] # {}
    /\ export_range = None


\* ------------------------------------------- failed downloads (C15)
\* The calls of download_date_range made for priority gaps, in order.
GapDownloads == SelectSeq(downloads, LAMBDA d : d.kind = "gap")

\* The number of calls in `calls` that returned `ok`.
CountReturned(calls, ok) ==
    Cardinality({i \in 1..Len(calls) : calls[i].ok = ok})

\* C15: once execute_download_strategy has returned, the downloads made for
\* gaps are the gaps of the mode-filtered plan, one call each and in the
\* plan's order, whatever the recent download and the earlier gaps returned;
\* gaps_filled counts the calls that succeeded and gaps_failed those that
\* failed, so their sum is the number of gaps attempted. While the loop
\* runs, the same holds of the gaps before its position.
C15_EveryGapAttemptedOnce ==
    RealRun /\ (pc = "gaps" \/ Executed) =>
        LET attempted == IF pc = "gaps" THEN gap_index - 1
                         ELSE Len(strategy.priority_gaps)
        IN  /\ Len(GapDownloads) = attempted
            /\ \A i \in 1..attempted :
                  /\ GapDownloads[i].start = strategy.priority_gaps[i][1]
                  /\ GapDownloads[i].end = strategy.priority_gaps[i][2]
            /\ results.gaps_filled = CountReturned(GapDownloads, TRUE)
            /\ results.gaps_failed = CountReturned(GapDownloads, FALSE)
            /\ results.gaps_filled + results.gaps_failed = attempted

\* The recent download and the first gap failed, the second gap was still
\* downloaded.
C15_Witness ==
    /\ pc = "done"
    /\ Len(downloads) = 3
    /\ downloads[1].kind = "recent" /\ ~downloads[1].ok
    /\ downloads[2].kind = "gap" /\ ~downloads[2].ok
    /\ downloads[3].kind = "gap" /\ downloads[3].ok
    /\ results = [recent_success |-> FALSE, gaps_filled |-> 1,
                  gaps_failed |-> 1]


\* ------------------------------------------------ fetch failures (C16, C17)
\* A step of a plan of one of `clients` in which a download method ran.
MethodRan(clients) ==
    /\ fetch # None
    /\ fetch.pc = "fetching"
    /\ fetch.client \in clients
    /\ fetch' # fetch

\* The API calls of the method that just ran whose first answer was 429.
Throttled == {i \in 1..Len(last_call') :
                last_call'[i] # <<>> /\ last_call'[i][1] = 429}

\* The plan went on to its next method or day, or returned after the last.
PlanContinued ==
    /\ fetch'.client = fetch.client
    /\ fetch'.end_date = fetch.end_date
    /\ IF fetch.step < Len(MethodsOf(fetch.client))
       THEN fetch'.pc = "fetching" /\ fetch'.day = fetch.day
                /\ fetch'.step = fetch.step + 1
       ELSE IF fetch.day < fetch.end_date
       THEN fetch'.pc = "fetching" /\ fetch'.day = fetch.day + 1
                /\ fetch'.step = 1
       ELSE fetch'.pc = "returned"

\* In every method call of a plan of `clients`: a call answered 429 is
\* followed by one backoff sleep and exactly one more request of the same
\* call; no other call is repeated; if the second answer is a failure too,
\* one failure is recorded for the day and metric and the plan continues.
RateLimitHandled(clients) ==
    MethodRan(clients) =>
        /\ \A i \in 1..Len(last_call') :
              Len(last_call'[i]) = IF i \in Throttled THEN 2 ELSE
                                  IF last_call'[i] = <<>> THEN 0 ELSE 1
        /\ fetch'.waits = fetch.waits + Cardinality(Throttled)
        /\ (\E i \in Throttled : last_call'[i][2] # 200) =>
              fetch'.errors = fetch.errors + 1
        /\ PlanContinued

\* C16: on every fetch path (the exporter behind
\* SmartUpdater.download_date_range and StreamlitFitbitClient.api_request) a
\* call answered 429 is retried exactly once after a fixed backoff; if the
\* retry fails too the day and metric count as one failure and the plan
\* continues.
C16_RateLimitRetriedOnce ==
    [][RateLimitHandled({"streamlit", "exporter"})]_vars

\* What the code does: the Streamlit client handles 429 as claimed (the
\* failure is a logged message); the exporter neither sleeps nor repeats the
\* call nor echoes the failure.
C16_CodeStreamlitRetriesOnce ==
    [][RateLimitHandled({"streamlit"})]_vars

C16_CodeExporterNeverRetries ==
    fetch # None /\ fetch.client = "exporter" =>
        /\ fetch.waits = 0
        /\ \A i \in 1..Len(last_call) : Len(last_call[i]) = 1
        /\ last_call # <<>> /\ last_call[1][1] = 429 =>
              fetch.errors <= fetch.requests - 1

\* The Streamlit client was throttled twice on one call and went on.
C16_WitnessStreamlit ==
    /\ fetch # None
    /\ fetch.client = "streamlit"
    /\ last_call = << <<429, 429>> >>
    /\ fetch.waits = 1
    /\ fetch.errors = 1
    /\ fetch.pc = "fetching"


\* C17: once a fetch of a plan failed because the token is missing, expired
\* or rejected (401), the plan requests nothing more, starts no other method
\* or day, and does not report success to its caller.
C17_AuthFailureIsFatal ==
    /\ [](fetch # None /\ fetch.auth_failed /\ fetch.pc = "returned" =>
            fetch.result # <<TRUE>>)
    /\ [][fetch # None /\ fetch.auth_failed =>
            /\ fetch'.requests = fetch.requests
            /\ fetch'.day = fetch.day
            /\ fetch'.step = fetch.step]_vars

\* What the code does: the failure is one more logged error; every plan runs
\* through all its days and methods and returns True.
C17_CodePlanAlwaysReportsSuccess ==
    fetch # None =>
        /\ fetch.pc = "returned" =>
              /\ fetch.result = <<TRUE>>
              /\ fetch.day = fetch.end_date
              /\ fetch.step = Len(MethodsOf(fetch.client))
        /\ fetch.pc = "fetching" => fetch.result = <<>>

\* A plan of the Streamlit client got a 401 on its first request, went on
\* requesting and returned True.
C17_WitnessRequestsAfterFailure ==
    /\ fetch # None
    /\ fetch.client = "streamlit"
    /\ fetch.auth_failed
    /\ fetch.pc = "returned"
    /\ fetch.result = <<TRUE>>
    /\ fetch.errors = 1
    /\ fetch.requests > 3


\* --------------------------------------- archive processor claims (C18-C20)
\* process_*_json has run on the archive file at least once.
FileProcessed == stats # None /\ stats.files_processed >= 1

\* Every record of the file has a dateTime in the expected format and, for a
\* numeric metric, a numeric value.
ValidFlatInput ==
    \A i \in 1..Len(raw_unit.records) :
        /\ raw_unit.records[i].dateTime \in Timestamps
        /\ raw_unit.type = "calories" => raw_unit.records[i].value # <<>>

\* The calendar day a timestamp lies in.
CalendarDay(ts) ==
    CHOOSE d \in RawDays : d * SlotsPerDay <= ts /\ ts < (d + 1) * SlotsPerDay

\* The calendar days the records of the file lie in.
InputDays ==
    {CalendarDay(raw_unit.records[i].dateTime) :
        i \in 1..Len(raw_unit.records)}

\* The positions <<d, j>> of all rows of the day files of type t for `days`.
RowPositions(t, days) ==
    {p \in days \X (1..Len(raw_unit.records)) : p[2] <= Len(TableOf(t, p[1]))}

\* C18: after a valid file of a flat metric was processed, every row of the
\* day file named D has a timestamp whose calendar date is D, every record of
\* the file is a row of the day file of its date and of no other, the day
\* files hold as many rows as the file has records, and a file whose records
\* span N dates produced exactly N day files.
C18_RowsGroupedByCalendarDay ==
    FileProcessed /\ ValidFlatInput =>
        LET t == raw_unit.type
            records == raw_unit.records
        IN  /\ written = {<<t, d>> : d \in InputDays}
            /\ Cardinality(written) = Cardinality(InputDays)
            /\ \A d \in InputDays : \A j \in 1..Len(TableOf(t, d)) :
                  CalendarDay(TableOf(t, d)[j].datetime) = d
            /\ \A i \in 1..Len(records) :
                  \E j \in 1..Len(TableOf(t, CalendarDay(records[i].dateTime))) :
                      TableOf(t, CalendarDay(records[i].dateTime))[j]
                          = RowOf(t, records[i])
            /\ Cardinality(RowPositions(t, InputDays)) = Len(records)

\* A file of three records over two dates gave two day files, one of them
\* with two rows.
C18_Witness ==
    /\ FileProcessed
    /\ ValidFlatInput
    /\ Len(raw_unit.records) = 3
    /\ Cardinality(written) = 2
    /\ \E d \in RawDays : Len(TableOf(raw_unit.type, d)) = 2

\* C19: processing the same archive file again leaves the store exactly as
\* the first processing left it: the day files, their rows and the folders.
C19_ReprocessingChangesNothing ==
    [][FileProcessed /\ stats'.files_processed = stats.files_processed + 1 =>
          /\ tables' = tables
          /\ store' = store
          /\ dirs' = dirs
          /\ written' = written]_vars

\* The file was processed twice and its rows replaced the table an earlier
\* archive had left for day 1.
C19_Witness ==
    /\ stats # None
    /\ stats.files_processed = 2
    /\ <<raw_unit.type, 1>> \in written
    /\ TableOf(raw_unit.type, 1) # EarlierRows(raw_unit.type)
    /\ store[raw_unit.type] # {}

\* The records of a heart-rate file whose value is null.
NullRecords ==
    {i \in 1..Len(raw_unit.records) : raw_unit.records[i].value = None}

\* C20: in a heart-rate file a record whose value is null gives no output
\* row and is counted as skipped, every well-formed record of the file is
\* still written with its bpm and confidence, and no error is raised.
C20_NullValueSkippedAndCounted ==
    FileProcessed /\ raw_unit.type = "heart_rate" /\ ValidFlatInput =>
        /\ \A i \in 1..Len(raw_unit.records) :
              LET r == raw_unit.records[i]
                  rows == TableOf("heart_rate", CalendarDay(r.dateTime))
              IN  IF i \in NullRecords
                  THEN \A j \in 1..Len(rows) : rows[j].heart_rate # EmptyCell
                  ELSE \E j \in 1..Len(rows) :
                          rows[j] = [datetime |-> r.dateTime,
                                     heart_rate |-> <<r.value.bpm>>,
                                     confidence |-> <<r.value.confidence>>]
        /\ Cardinality(RowPositions("heart_rate", InputDays))
              = Len(raw_unit.records) - Cardinality(NullRecords)
        /\ stats.files_skipped = Cardinality(NullRecords)
        /\ errors = 0

\* What the code does: the null record becomes a row with empty heart_rate
\* and confidence, nothing is counted as skipped and nothing is raised.
C20_CodeNullValueBecomesEmptyRow ==
    FileProcessed /\ raw_unit.type = "heart_rate" /\ ValidFlatInput =>
        /\ \A i \in 1..Len(raw_unit.records) :
              LET r == raw_unit.records[i]
                  rows == TableOf("heart_rate", CalendarDay(r.dateTime))
              IN  \E j \in 1..Len(rows) :
                      rows[j] = IF i \in NullRecords
                                THEN [datetime |-> r.dateTime,
                                      heart_rate |-> EmptyCell,
                                      confidence |-> EmptyCell]
                                ELSE [datetime |-> r.dateTime,
                                      heart_rate |-> <<r.value.bpm>>,
                                      confidence |-> <<r.value.confidence>>]
        /\ Cardinality(RowPositions("heart_rate", InputDays))
              = Len(raw_unit.records)
        /\ stats.files_skipped = 0
        /\ errors = 0


\* ------------------------------------------------- CSV partition (C21)
\* A CSV archive file has been processed.
CsvProcessed ==
    /\ stats # None /\ stats.files_processed >= 1
    /\ raw_unit.type \in CsvTypes

\* The day file of the processed metric for day d holds a row for the
\* timestamp ts.
CsvRowStoredUnder(d, ts) ==
    \E j \in 1..Len(CsvTableOf(raw_unit.type, d, raw_unit.variant)) :
        CsvTableOf(raw_unit.type, d, raw_unit.variant)[j].datetime = ts

\* C21: of a processed CSV file, a row without a timestamp is stored under
\* the date of the file name, and a row with a timestamp under the calendar
\* day of its timestamp (and under no other day).
C21_TimestampDecidesPartition ==
    CsvProcessed =>
        \A i \in 1..Len(raw_unit.rows) :
            LET ts == raw_unit.rows[i]
                own == IF ts = NoTimestamp THEN raw_unit.name.date
                       ELSE CalendarDay(ts)
            IN  \A d \in RawDays : CsvRowStoredUnder(d, ts) <=> d = own

\* What the code does: every row of the file is stored under the date of
\* the file name, in one day file.
C21_CodeFileNameDecidesPartition ==
    CsvProcessed =>
        /\ \A i \in 1..Len(raw_unit.rows) : \A d \in RawDays :
              CsvRowStoredUnder(d, raw_unit.rows[i]) <=> d = raw_unit.name.date
        /\ written = IF raw_unit.rows = <<>> THEN {}
                     ELSE {<<raw_unit.type, raw_unit.name.date,
                             raw_unit.variant>>}


\* ------------------------------------------------- covered days (C22)
RECURSIVE SumGapLengths(_, _)
\* The sum of the lengths of the report's gaps from index i on.
SumGapLengths(gaps, i) ==
    IF i > Len(gaps) THEN 0 ELSE gaps[i][3] + SumGapLengths(gaps, i + 1)

\* C22: in a report with covered days, every calendar day appears once in
\* 'dates' and is counted once in 'days', however many files the folder
\* holds for it, and days plus the gap lengths is the number of days from
\* the first to the last covered day.
C22_CoveredDaysFormASet ==
    Reported /\ report.days > 0 =>
        /\ \A i, j \in 1..Len(report.dates) :
              report.dates[i] = report.dates[j] => i = j
        /\ report.days = Cardinality(CoveredDays(report.type))
        /\ report.days + SumGapLengths(report.gaps, 1)
              = report.date_range[2] - report.date_range[1] + 1

\* What the code does: 'dates' has one entry per dated file and 'days' is
\* their number.
C22_CodeDaysCountsFiles ==
    Reported /\ report.days > 0 =>
        /\ report.days = Len(report.dates)
        /\ report.days =
              Cardinality({f \in store[report.type] : ParsesAsDate(f)})
        /\ \A d \in CoveredDays(report.type) :
              Cardinality({i \in 1..Len(report.dates) : report.dates[i] = d})
                = Cardinality({f \in store[report.type] : f.date = d})


\* ------------------------------------------------ redundant fetches (C23)
\* The days the i-th call of download_date_range had exported when it
\* returned True (none when the exporter raised before requesting anything).
RequestedDays(i) ==
    IF downloads[i].ok THEN DaysOfRange(downloads[i].start, downloads[i].end)
    ELSE {}

\* C23: within one run no calendar day is requested by more than one range
\* download.
C23_NoDayRequestedTwice ==
    \A i, j \in 1..Len(downloads) :
        i # j => RequestedDays(i) \cap RequestedDays(j) = {}

\* What the code does: a planned range overlaps another one only when both
\* are gaps of different priority types; the recent range overlaps no gap,
\* and the gaps of one type do not overlap.
C23_CodeOnlyGapsOfDifferentTypesOverlap ==
    pc \in {"merge", "done"} /\ ~flags.recent_only =>
        \A i, j \in 1..Len(downloads) :
            i # j /\ RequestedDays(i) \cap RequestedDays(j) # {} =>
                /\ downloads[i].kind = "gap" /\ downloads[j].kind = "gap"
                /\ \E a, b \in 1..Len(strategy.priority_gaps) :
                      /\ a # b
                      /\ strategy.priority_gaps[a][3] # strategy.priority_gaps[b][3]
                      /\ strategy.priority_gaps[a][1] = downloads[i].start
                      /\ strategy.priority_gaps[b][1] = downloads[j].start


\* ------------------------------------------------ main sleep and naps (C24)
\* The minutesAsleep of the sessions of day d in a table, in table order.
RECURSIVE MinutesOfDay(_, _)
MinutesOfDay(sleep_data, d) ==
    IF sleep_data = <<>> THEN <<>>
    ELSE LET rest == MinutesOfDay(Tail(sleep_data), d)
         IN  IF Head(sleep_data).date = d
             THEN <<Head(sleep_data).minutesAsleep>> \o rest
             ELSE rest

\* The sleep_type labels of the sessions of day d in a table, in table order.
RECURSIVE LabelsOfDay(_, _)
LabelsOfDay(sleep_data, d) ==
    IF sleep_data = <<>> THEN <<>>
    ELSE LET rest == LabelsOfDay(Tail(sleep_data), d)
         IN  IF Head(sleep_data).date = d
             THEN <<Head(sleep_data).sleep_type>> \o rest
             ELSE rest

\* In the labelled table, day d has exactly one main sleep, it is a session
\* with the largest minutesAsleep of the day, and every other session of the
\* day is a nap.
OneMainSleep(labelled, d) ==
    LET I == SessionsOfDay(labelled, d)
    IN  I # {} =>
            \E m \in I :
                /\ labelled[m].sleep_type = "Main Sleep"
                /\ \A j \in I :
                      labelled[j].minutesAsleep <= labelled[m].minutesAsleep
                /\ \A j \in I \ {m} : labelled[j].sleep_type = "Nap"

LengthOfDownload(i) == downloads[i].end - downloads[i].start + 1

\* The fetched files of api that api_before did not hold.
NewlyFetched(api_before, api_after) ==
    UNION {api_after[t] \ api_before[t] : t \in ApiTypes}

\* C25: the recent range is downloaded before any gap; the gaps are
\* downloaded in the order of the plan's priority_gaps list, which is by
\* ascending gap length; the downloads happen one after the other, and each
\* one runs with the configuration file's export range set to exactly its
\* range, fetching days of that range only.
C25_RecentFirstThenGapsInPlanOrder ==
    /\ [](Executed =>
            /\ \A i \in 1..Len(downloads) :
                  downloads[i].kind = "recent" => i = 1
            /\ Len(GapDownloads) <= Len(strategy.priority_gaps)
            /\ \A i \in 1..Len(GapDownloads) :
                  /\ GapDownloads[i].start = strategy.priority_gaps[i][1]
                  /\ GapDownloads[i].end = strategy.priority_gaps[i][2]
            /\ \A i, j \in 1..Len(downloads) :
                  /\ i < j
                  /\ downloads[i].kind = "gap"
                  /\ downloads[j].kind = "gap"
                  => LengthOfDownload(i) <= LengthOfDownload(j))
    /\ [][downloads' # downloads =>
            LET last == downloads'[Len(downloads')]
            IN  /\ downloads' = Append(downloads, last)
                /\ export_range' = <<last.start, last.end>>
                /\ \A f \in NewlyFetched(api, api') :
                      f.date \in DaysOfRange(export_range'[1],
                                             export_range'[2])]_vars

\* Witness: a recent range and two gaps of different lengths were downloaded,
\* the shorter gap first.
C25_Witness ==
    /\ pc = "merge"
    /\ Len(downloads) = 3
    /\ downloads[1].kind = "recent"
    /\ downloads[2].kind = "gap"
    /\ downloads[3].kind = "gap"
    /\ LengthOfDownload(2) < LengthOfDownload(3)
    /\ downloads[3].ok
    /\ export_range = <<downloads[3].start, downloads[3].end>>


\* ------------------------------------------------ merge after a run (C26)
\* Some call of download_date_range returned True.
SomeDownloadSucceeded == \E i \in 1..Len(downloads) : downloads[i].ok

\* The ranges the mode-filtered plan holds.
PlannedRanges ==
    (IF strategy.recent_data = None THEN 0 ELSE 1)
        + (IF flags.recent_only THEN 0 ELSE Len(strategy.priority_gaps))

\* C26: in an executing run the merge pass runs only in the step that ends
\* the run, after every range of the filtered plan was attempted, and it runs
\* there if and only if the recent download succeeded or a gap was filled;
\* when every download failed no merge pass runs and no step of the run
\* changes the store.
C26_MergeOnceIffSomethingDownloaded ==
    /\ [][merge_results' # merge_results =>
            /\ pc = "merge" /\ pc' = "done"
            /\ Len(downloads) = PlannedRanges
            /\ results.recent_success \/ results.gaps_filled > 0]_vars
    /\ [](pc = "done" =>
            /\ merge_results # NotMerged <=> SomeDownloadSucceeded
            /\ SomeDownloadSucceeded
                  <=> results.recent_success \/ results.gaps_filled > 0)
    /\ [][store' # store \/ dirs' # dirs =>
            pc = "merge" /\ SomeDownloadSucceeded]_vars

\* Witness: the recent download failed, a gap was filled, and the run ended
\* with a merge pass.
C26_Witness ==
    /\ pc = "done"
    /\ Len(downloads) = 2
    /\ downloads[1].kind = "recent" /\ ~downloads[1].ok
    /\ downloads[2].kind = "gap" /\ downloads[2].ok
    /\ merge_results # NotMerged


\* ------------------------------------------- executing runs download (C27)
\* C27: a run that reached the executing phase has called
\* download_date_range at least once by the time execute_download_strategy
\* returns, whatever recent_only and fill_gaps are.
C27_ExecutingRunDownloadsSomething ==
    RealRun /\ pc \in {"merge", "done"} => downloads # <<>>

\* What the code does: an executing run downloads nothing exactly when the
\* mode filters leave nothing of the plan: recent_only with a plan that has
\* no recent range, or fill_gaps = False (without recent_only) with a plan
\* that has no priority gap.
C27_CodeFilteredPlanMayBeEmpty ==
    ExecutionReturned =>
        (downloads = <<>> <=>
            \/ flags.recent_only /\ CalculatedPlan.recent_data = None
            \/ /\ ~flags.recent_only
               /\ CalculatedPlan.priority_gaps = <<>>
               /\ ~flags.fill_gaps \/ CalculatedPlan.recent_data = None)


\* ------------------------------------------- trailing missing days (C28)
\* The days of the plan's recent range.
PlannedRecentDays ==
    IF strategy.recent_data = None THEN {}
    ELSE DaysOfRange(strategy.recent_data[1], strategy.recent_data[2])

\* The days after the last covered day of data type t, up to today.
TrailingMissingDays(t) ==
    IF CoveredDays(t) = {} THEN {}
    ELSE (SetMax(CoveredDays(t)) + 1)..today

\* C28: for every priority data type with a covered day, every day after the
\* type's own last covered day up to today lies inside the plan's recent
\* range.
C28_TrailingDaysOfPriorityTypesPlanned ==
    Planned =>
        \A t \in SeqRange(priority_types) :
            TrailingMissingDays(t) \subseteq PlannedRecentDays

\* What the code does: the recent range covers the trailing days of the data
\* types whose last covered day is the latest of all data types, and misses
\* the days of any other type from its last covered day + 1 to that latest
\* day.
C28_CodeRecentFollowsLatestOfAllTypes ==
    Planned /\ AllCoveredDays # {} =>
        \A t \in DataTypes :
            CoveredDays(t) # {} =>
                TrailingMissingDays(t) \ PlannedRecentDays
                    = (SetMax(CoveredDays(t)) + 1)
                          ..(IF SetMax(AllCoveredDays) < today
                             THEN SetMax(AllCoveredDays) ELSE today)


\* ----------------------------------------------------- convergence (C29)
\* Every call of download_date_range returned True and left a fetched table
\* for every day of its range and every priority data type.
EveryDownloadComplete ==
    \A i \in 1..Len(downloads) :
        /\ downloads[i].ok
        /\ \A t \in SeqRange(priority_types) :
              \A d \in DaysOfRange(downloads[i].start, downloads[i].end) :
                  \E a \in api[t] : a.date = d

\* run_update(recent_only=False, fill_gaps=True) has executed its plan, all
\* of it successfully, and has returned.
FullRunSucceeded ==
    /\ pc = "done"
    /\ ~flags.dry_run /\ ~flags.recent_only /\ flags.fill_gaps
    /\ EveryDownloadComplete

\* C29: after a full run whose downloads all succeeded and delivered every
\* requested day of every priority type, the plan calculated on the same day
\* has total_days = 0.
C29_FullRunConverges ==
    FullRunSucceeded => calculate_download_strategy(today).total_days = 0

\* Before the run some priority data type had its last covered day before
\* the latest covered day of all data types: exactly the days the run's
\* downloads did not cover that a priority type now has a gap over.
LaggingTypeGapLeft ==
    \E g \in SeqRange(find_priority_gaps) :
        \A i \in 1..Len(downloads) :
            DaysOfRange(g[1], g[2])
                \cap DaysOfRange(downloads[i].start, downloads[i].end) = {}

\* What the code does: after such a run the only days a new plan holds are
\* priority gaps that no download of the run touched (the trailing days of a
\* priority type that lagged behind another data type); the new plan has no
\* recent range.
C29_CodeOnlyLaggingTypesAreLeft ==
    FullRunSucceeded =>
        /\ calculate_download_strategy(today).recent_data = None
        /\ calculate_download_strategy(today).total_days # 0
              => LaggingTypeGapLeft


\* ------------------------------------------- merged fetches are frozen (C30)
\* The fetched files of t whose day the store already holds a table for
\* that an earlier merge pass copied from a fetch.
FrozenDays(t) ==
    {a \in api[t] :
        \E f \in store[t] : f.date = a.date /\ f.sfx = "" /\ f.data > 0}

=============================================================================
